---- MODULE Spec2Model ----
(***************************************************************************)
(* Model of the BD address enricher (src/address_enricher.py): text        *)
(* normalisation, the geocode cache and its CSV store, the online          *)
(* resolver with its phrasing attempts, and the per-row mode policy of     *)
(* run().                                                                  *)
(*                                                                         *)
(* A Python str is modelled as a sequence of code points, each code point  *)
(* a one-character string ("a", ",", ...) or, outside ASCII, its name      *)
(* ("u09A2").  None is the one-element sequence NoneVal and a pandas NaN   *)
(* cell the one-element sequence NaNVal, so that every value is a          *)
(* sequence and can be compared with every other.                          *)
(***************************************************************************)
EXTENDS Integers, Sequences, FiniteSets, TLC

VARIABLES
  nx, ny, nz, npc,          \* SpecNorm: input, normalize(x), normalize(normalize(x))
  cache_path, store, cache, \* the cache file's path, its content, the cache dict
  loaded, cpc,              \* SpecCsv: the last load_cache result, position
  mode, retry_online_notfound, gazetteer_csv, gazetteer_file, columns,
                            \* run(): arguments, the gazetteer file, the
                            \* District/Thana columns the input sheet has
  csv_rows,                 \* run(): the rows load_csv_gazetteer gave
  pc, err,                  \* run(): position, the exception that ended it
  row_i, addr, out,         \* run(): rows started, addr, (district_out, thana_out)
  d1t1, d2t2, d3t3,         \* run(): (d1, t1), (d2, t2), (d3, t3)
  pre, post,                \* the row's District/Thana cells before and after the fill
  ret, on,                  \* online_enrich: its call site, its return value
  att, resp, look,          \* nominatim_lookup: attempt index, response, return value
  row_calls, row_cache,     \* observed: online_enrich calls of the row, cache at its start
  call_cache, call_net, call_fail, call_sleeps,
                            \* observed, of the row's latest online_enrich call: cache
                            \* at entry, requests, failed requests, sleeps
  lookups,                  \* observed: nominatim_lookup calls per raw address
  lastev,                   \* observed: the latest of the run's requests and sleeps
  row_reqs,                 \* observed: the attempts the row issued a request for
  svc,                      \* the geocoding service: its answer to each attempt,
                            \* or AnyService
  first_run                 \* SpecModes: what the run in mode "offline" came to

normvars == <<nx, ny, nz, npc>>
csvvars == <<cache_path, store, cache, loaded, cpc>>
cfgvars == <<mode, retry_online_notfound, gazetteer_csv, gazetteer_file, columns, svc>>
rowvars == <<row_i, addr, out, d1t1, d2t2, d3t3, pre, post>>
callvars == <<ret, on, att, resp, look>>
obsvars == <<row_calls, row_cache, call_cache, call_net, call_fail, call_sleeps, lookups,
            lastev, row_reqs>>
runvars == <<cfgvars, csv_rows, pc, err, rowvars, callvars, obsvars, first_run>>
vars == <<normvars, csvvars, runvars>>

----------------------------------------------------------------------------
(* Python values and str primitives                                        *)

\* The code points of an ASCII literal.
S(str) == [k \in 1..Len(str) |-> SubSeq(str, k, k)]

NoneVal == <<"<None>">>
NaNVal == <<"<NaN>">>

\* bool(x) of a str or None: empty and None are falsy.
Truthy(x) == x # NoneVal /\ x # <<>>

LowerLetters == S("abcdefghijklmnopqrstuvwxyz")
UpperLetters == S("ABCDEFGHIJKLMNOPQRSTUVWXYZ")
DigitChars == {"0", "1", "2", "3", "4", "5", "6", "7", "8", "9"}
LowerSet == {LowerLetters[k] : k \in 1..26}
UpperSet == {UpperLetters[k] : k \in 1..26}
\* what \s and str.strip() treat as whitespace
Whitespace == {" ", "\t", "\n", "\r", "\f"}

lowerChar(c) ==
  IF c \in UpperSet THEN LowerLetters[CHOOSE k \in 1..26 : UpperLetters[k] = c] ELSE c

upperChar(c) ==
  IF c \in LowerSet THEN UpperLetters[CHOOSE k \in 1..26 : LowerLetters[k] = c] ELSE c

\* str.lower()
lower(s) == [k \in 1..Len(s) |-> lowerChar(s[k])]

\* s[i:].startswith(p), 1-based
StartsWithAt(s, i, p) ==
  /\ i + Len(p) - 1 <= Len(s)
  /\ SubSeq(s, i, i + Len(p) - 1) = p

\* p in s
Contains(s, p) == \E i \in 1..(Len(s) + 1) : StartsWithAt(s, i, p)

\* str.replace(a, b): the non-overlapping occurrences of a, left to right
RECURSIVE ReplaceFrom(_, _, _, _)
ReplaceFrom(s, i, a, b) ==
  IF i > Len(s) THEN <<>>
  ELSE IF StartsWithAt(s, i, a) THEN b \o ReplaceFrom(s, i + Len(a), a, b)
  ELSE <<s[i]>> \o ReplaceFrom(s, i + 1, a, b)

replace(s, a, b) == ReplaceFrom(s, 1, a, b)

\* for a, b in table.items(): s = s.replace(a, b), in table order
RECURSIVE ReplaceAll(_, _, _)
ReplaceAll(s, table, k) ==
  IF k > Len(table) THEN s
  ELSE ReplaceAll(replace(s, table[k][1], table[k][2]), table, k + 1)

\* str.strip()
RECURSIVE lstrip(_)
lstrip(s) == IF s # <<>> /\ Head(s) \in Whitespace THEN lstrip(Tail(s)) ELSE s

RECURSIVE rstrip(_)
rstrip(s) ==
  IF s # <<>> /\ s[Len(s)] \in Whitespace THEN rstrip(SubSeq(s, 1, Len(s) - 1)) ELSE s

strip(s) == rstrip(lstrip(s))

\* re.sub(r"\s+", " ", s)
RECURSIVE CollapseFrom(_, _)
CollapseFrom(s, i) ==
  IF i > Len(s) THEN <<>>
  ELSE IF s[i] \in Whitespace
    THEN IF i > 1 /\ s[i - 1] \in Whitespace
           THEN CollapseFrom(s, i + 1)
           ELSE <<" ">> \o CollapseFrom(s, i + 1)
  ELSE <<s[i]>> \o CollapseFrom(s, i + 1)

collapse_ws(s) == CollapseFrom(s, 1)

----------------------------------------------------------------------------
(* Utilities: normalize                                                    *)

replacements ==
  << <<S("dacca"), S("dhaka")>>,
     <<S("chittagong"), S("chattogram")>>,
     <<S("ctg"), S("chattogram")>>,
     <<S("barisal"), S("barishal")>>,
     <<S("cumilla"), S("comilla")>>,
     <<S("uttora"), S("uttara")>>,
     <<S("gulshan-1"), S("gulshan 1")>>,
     <<S("gulshan-2"), S("gulshan 2")>>,
     <<S("badda thana"), S("badda")>>,
     <<S("banani thana"), S("banani")>>,
     <<S("kotowali"), S("kotwali")>>,
     <<S("mohammad pur"), S("mohammadpur")>> >>

\* the class [a-z0-9,/\-\s]
NormAllowed(c) == c \in LowerSet \cup DigitChars \cup {",", "/", "-"} \cup Whitespace

\* re.sub(r"[^a-z0-9,/\-\s]", " ", s)
strip_punct(s) == [k \in 1..Len(s) |-> IF NormAllowed(s[k]) THEN s[k] ELSE " "]

normalize(s) ==
  LET s0 == IF s = NoneVal THEN <<>> ELSE s
      s1 == lower(s0)
      s2 == ReplaceAll(s1, replacements, 1)
      s3 == strip_punct(s2)
  IN  strip(collapse_ws(s3))

----------------------------------------------------------------------------
(* Utilities: bangla_normalize_text                                        *)

rep ==
  << <<<<"u09A2", "u09BE", "u0995", "u09BE">>, S("Dhaka")>>,
     <<<<"u099A", "u099F", "u09CD", "u099F", "u0997", "u09CD", "u09B0", "u09BE", "u09AE">>, S("Chattogram")>>,
     <<<<"u0995", "u09AE", "u09BF", "u09B2", "u09CD", "u09B2", "u09BE">>, S("Comilla")>>,
     <<<<"u0995", "u09C1", "u09AE", "u09BF", "u09B2", "u09CD", "u09B2", "u09BE">>, S("Comilla")>>,
     <<<<"u09AC", "u0997", "u09C1", "u09A1", "u09BC", "u09BE">>, S("Bogura")>>,
     <<<<"u09A8", "u09B0", "u09B8", "u09BF", "u0982", "u09A6", "u09C0">>, S("Narsingdi")>>,
     <<<<"u09A8", "u09B0", "u09BE", "u09AF", "u09BC", "u09A3", "u0997", "u099E", "u09CD", "u099C">>, S("Narayanganj")>>,
     <<<<"u09B8", "u09BF", "u09B2", "u09C7", "u099F">>, S("Sylhet")>>,
     <<<<"u0996", "u09C1", "u09B2", "u09A8", "u09BE">>, S("Khulna")>>,
     <<<<"u09AC", "u09B0", "u09BF", "u09B6", "u09BE", "u09B2">>, S("Barishal")>>,
     <<<<"u09B0", "u09BE", "u099C", "u09B6", "u09BE", "u09B9", "u09C0">>, S("Rajshahi")>>,
     <<<<"u0995", "u09BF", "u09B6", "u09CB", "u09B0", "u0997", "u099E", "u09CD", "u099C">>, S("Kishoreganj")>>,
     <<<<"u09A6", "u09BF", "u09A8", "u09BE", "u099C", "u09AA", "u09C1", "u09B0">>, S("Dinajpur")>>,
     <<<<"u09AB", "u09C7", "u09A8", "u09C0">>, S("Feni")>>,
     <<<<"u09A8", "u09CB", "u09AF", "u09BC", "u09BE", "u0996", "u09BE", "u09B2", "u09C0">>, S("Noakhali")>>,
     <<<<"u09B2", "u0995", "u09CD", "u09B7", "u09CD", "u09AE", "u09C0", "u09AA", "u09C1", "u09B0">>, S("Lakshmipur")>>,
     <<<<"u09B6", "u09CD", "u09AF", "u09BE", "u09AE", "u09B2", "u09C0">>, S("Shyamoli")>>,
     <<<<"u0997", "u09C1", "u09B2", "u09B6", "u09BE", "u09A8">>, S("Gulshan")>>,
     <<<<"u09AC", "u09BE", "u09A8", "u09BE", "u09A8", "u09C0">>, S("Banani")>>,
     <<<<"u0989", "u09A4", "u09CD", "u09A4", "u09B0", "u09BE">>, S("Uttara")>>,
     <<<<"u09AC", "u09BE", "u09A1", "u09CD", "u09A1", "u09BE">>, S("Badda")>>,
     <<<<"u09AE", "u09A4", "u09BF", "u099D", "u09BF", "u09B2">>, S("Motijheel")>>,
     <<<<"u09B6", "u09BE", "u09B9", "u09AC", "u09BE", "u0997">>, S("Shahbag")>> >>

\* a non-str argument gives ""
bangla_normalize_text(s) == IF s = NoneVal THEN <<>> ELSE ReplaceAll(s, rep, 1)

----------------------------------------------------------------------------
(* Data (districts, aliases, areas)                                        *)

DISTRICTS ==
  << S("dhaka"), S("gazipur"), S("narayanganj"), S("munshiganj"), S("manikganj"),
     S("narshingdi"), S("kishoreganj"), S("tangail"), S("mymensingh"), S("jamalpur"),
     S("netrokona"), S("sherpur"), S("faridpur"), S("madaripur"), S("gopalganj"), S("rajbari"),
     S("shariatpur"), S("chattogram"), S("cox s bazar"), S("feni"), S("noakhali"),
     S("lakshmipur"), S("rangamati"), S("khagrachhari"), S("bandarban"), S("comilla"),
     S("brahmanbaria"), S("sylhet"), S("moulvibazar"), S("habiganj"), S("sunamganj"),
     S("khulna"), S("jashore"), S("satkhira"), S("bagerhat"), S("chuadanga"), S("kushtia"),
     S("meherpur"), S("jhenaidah"), S("magura"), S("narail"), S("rajshahi"),
     S("chapainawabganj"), S("naogaon"), S("natore"), S("pabna"), S("sirajganj"), S("bogura"),
     S("barishal"), S("patuakhali"), S("barguna"), S("jhalokathi"), S("pirojpur"), S("bhola"),
     S("rangpur"), S("dinajpur"), S("nilphamari"), S("lalmonirhat"), S("kurigram"),
     S("gaibandha"), S("thakurgaon"), S("panchagarh") >>

DISTRICT_ALIASES ==
  << <<S("laxmipur"), S("lakshmipur")>>, <<S("bogra"), S("bogura")>>,
     <<S("jessore"), S("jashore")>>, <<S("barisal"), S("barishal")>>,
     <<S("chittagong"), S("chattogram")>>, <<S("coxsbazar"), S("cox s bazar")>>,
     <<S("cox's bazar"), S("cox s bazar")>> >>

AREA_TO_DISTRICT ==
  << <<S("gulshan"), S("dhaka")>>, <<S("banani"), S("dhaka")>>, <<S("baridhara"), S("dhaka")>>,
     <<S("badda"), S("dhaka")>>, <<S("uttara"), S("dhaka")>>, <<S("mirpur"), S("dhaka")>>,
     <<S("mohammadpur"), S("dhaka")>>, <<S("tejgaon"), S("dhaka")>>,
     <<S("dhanmondi"), S("dhaka")>>, <<S("lalbagh"), S("dhaka")>>, <<S("kafrul"), S("dhaka")>>,
     <<S("cantonment"), S("dhaka")>>, <<S("airport"), S("dhaka")>>, <<S("ramna"), S("dhaka")>>,
     <<S("motijheel"), S("dhaka")>>, <<S("paltan"), S("dhaka")>>,
     <<S("sabujbagh"), S("dhaka")>>, <<S("khilgaon"), S("dhaka")>>,
     <<S("rampura"), S("dhaka")>>, <<S("jatrabari"), S("dhaka")>>, <<S("mugda"), S("dhaka")>>,
     <<S("wari"), S("dhaka")>>, <<S("demra"), S("dhaka")>>, <<S("shyampur"), S("dhaka")>>,
     <<S("kamrangirchar"), S("dhaka")>>, <<S("adabor"), S("dhaka")>>,
     <<S("hazaribagh"), S("dhaka")>>, <<S("shahbag"), S("dhaka")>>,
     <<S("banglamotor"), S("dhaka")>>, <<S("bansree"), S("dhaka")>>,
     <<S("khilkhet"), S("dhaka")>>, <<S("bosila"), S("dhaka")>>, <<S("niketan"), S("dhaka")>>,
     <<S("notun bazar"), S("dhaka")>>, <<S("bashundhara"), S("dhaka")>>,
     <<S("bashundhara r/a"), S("dhaka")>>, <<S("nakhalpara"), S("dhaka")>>,
     <<S("tejgaon industrial area"), S("dhaka")>>, <<S("zigatola"), S("dhaka")>>,
     <<S("tongi"), S("gazipur")>>, <<S("joydebpur"), S("gazipur")>>,
     <<S("kaliakair"), S("gazipur")>>, <<S("kaliganj"), S("gazipur")>>,
     <<S("sreepur"), S("gazipur")>>, <<S("siddhirganj"), S("narayanganj")>>,
     <<S("bandar"), S("narayanganj")>>, <<S("fatulla"), S("narayanganj")>>,
     <<S("kotwali"), S("chattogram")>>, <<S("panchlaish"), S("chattogram")>>,
     <<S("double mooring"), S("chattogram")>>, <<S("pahartali"), S("chattogram")>>,
     <<S("halishahar"), S("chattogram")>>, <<S("patenga"), S("chattogram")>>,
     <<S("bakalia"), S("chattogram")>>, <<S("bandar thana"), S("chattogram")>>,
     <<S("chandgaon"), S("chattogram")>>, <<S("akbar shah"), S("chattogram")>>,
     <<S("bayazid"), S("chattogram")>>, <<S("kotwali sylhet"), S("sylhet")>>,
     <<S("south surma"), S("sylhet")>>, <<S("moglabazar"), S("sylhet")>>,
     <<S("subidbazar"), S("sylhet")>>, <<S("boalia"), S("rajshahi")>>,
     <<S("motihar"), S("rajshahi")>>, <<S("rajpara"), S("rajshahi")>>,
     <<S("shah makhdum"), S("rajshahi")>>, <<S("khalishpur"), S("khulna")>>,
     <<S("daulatpur"), S("khulna")>>, <<S("sonadanga"), S("khulna")>>,
     <<S("khulna kotwali"), S("khulna")>>, <<S("barishal kotwali"), S("barishal")>>,
     <<S("airport barishal"), S("barishal")>>, <<S("kotwali comilla"), S("comilla")>>,
     <<S("adarsa sadar"), S("comilla")>>, <<S("sadar noakhali"), S("noakhali")>>,
     <<S("sadar bogura"), S("bogura")>> >>

\* the variants {k, k.replace("-", " "), k.replace(" ", ""), k.replace("/", " ")}
area_variants(k) ==
  {k, replace(k, <<"-">>, <<" ">>), replace(k, <<" ">>, <<>>), replace(k, <<"/">>, <<" ">>)}

\* the pairs (normalize(variant), position of the item) of the loop
variant_pairs(area_to_district) ==
  UNION {{<<normalize(x), j>> : x \in area_variants(area_to_district[j][1])} :
         j \in 1..Len(area_to_district)}

\* expanded[key] = v, the last assignment to a key standing
last_assigned(area_to_district, pairs) ==
  [k \in {p[1] : p \in pairs} |->
     area_to_district[CHOOSE j \in 1..Len(area_to_district) :
                        /\ <<k, j>> \in pairs
                        /\ \A p \in pairs : p[1] = k => p[2] <= j][2]]

\* expand_area_keys: expanded[normalize(variant)] = v for every item (k, v); an
\* item later in the table overwrites an earlier one on the same key.
expand_area_keys(area_to_district) ==
  last_assigned(area_to_district, variant_pairs(area_to_district))

EXPANDED_AREA == expand_area_keys(AREA_TO_DISTRICT)

\* list(set(...)): the keys; the list's order is the set's iteration order,
\* which the hash seed of the process decides.
AREA_KEYS == DOMAIN EXPANDED_AREA

\* DISTRICT_ALIASES.get(d, d)
alias_get(d) ==
  IF \E j \in 1..Len(DISTRICT_ALIASES) : DISTRICT_ALIASES[j][1] = d
    THEN DISTRICT_ALIASES[CHOOSE j \in 1..Len(DISTRICT_ALIASES) : DISTRICT_ALIASES[j][1] = d][2]
    ELSE d

\* [normalize(x) for x in DISTRICTS]
NormDistricts == {normalize(DISTRICTS[j]) : j \in 1..Len(DISTRICTS)}

DISTRICT_KEYS ==
  NormDistricts \cup {DISTRICT_ALIASES[j][1] : j \in 1..Len(DISTRICT_ALIASES)}

----------------------------------------------------------------------------
(* dict: the sequence of its items <<key, a, b>> in insertion order, keys  *)
(* distinct.  The cache maps a raw address to (district, thana).           *)

dict_has(d, k) == \E j \in 1..Len(d) : d[j][1] = k

\* d[k], for a key of d
dict_get(d, k) ==
  LET j == CHOOSE j \in 1..Len(d) : d[j][1] = k IN <<d[j][2], d[j][3]>>

\* d[k] = (a, b): an existing key keeps its place
dict_set(d, k, a, b) ==
  IF dict_has(d, k)
    THEN [j \in 1..Len(d) |-> IF d[j][1] = k THEN <<k, a, b>> ELSE d[j]]
    ELSE Append(d, <<k, a, b>>)

dict_keys(d) == {d[j][1] : j \in 1..Len(d)}

----------------------------------------------------------------------------
(* The csv module as load_cache, save_cache and load_csv_gazetteer use it. *)
(* A file is the sequence of its decoded code points; BadByte stands for   *)
(* bytes that are not UTF-8, and AbsentFile for a path with no file.       *)

AbsentFile == <<"<absent>">>
BadByte == "<bad byte>"

\* a writer that quotes no field
csv_never_quote(f) == FALSE

\* csv.writer, dialect excel: a field is quoted when it holds the delimiter,
\* the quote character or a character of the line terminator; quotes double.
csv_needs_quote(f) == \E k \in 1..Len(f) : f[k] \in {",", "\"", "\r", "\n"}

RECURSIVE csv_double_quotes(_)
csv_double_quotes(f) ==
  IF f = <<>> THEN <<>>
  ELSE (IF Head(f) = "\"" THEN <<"\"", "\"">> ELSE <<Head(f)>>)
       \o csv_double_quotes(Tail(f))

\* None is written as the empty field
csv_field(f) ==
  LET g == IF f = NoneVal THEN <<>> ELSE f
  IN  IF csv_needs_quote(g) THEN <<"\"">> \o csv_double_quotes(g) \o <<"\"">> ELSE g

\* writer.writerow of a three-field row
csv_writerow(row) ==
  csv_field(row[1]) \o <<",">> \o csv_field(row[2]) \o <<",">> \o csv_field(row[3])
  \o <<"\r", "\n">>

RECURSIVE csv_writerows(_)
csv_writerows(d) ==
  IF d = <<>> THEN <<>> ELSE csv_writerow(Head(d)) \o csv_writerows(Tail(d))

\* Iterating a file opened with newline="": a line ends after "\n", after a
\* "\r" not followed by "\n", and at the end of the file.
LineEndsAt(text, i) ==
  \/ i = Len(text)
  \/ text[i] = "\n"
  \/ text[i] = "\r" /\ text[i + 1] # "\n"

\* csv.reader (_csv.c, parse_process_char): one step of the field parser.
\* p = [st, fld, rec, rows, err]; c is a code point or "EOL", the end of a line.
csv_save_field(p) == [p EXCEPT !.rec = Append(p.rec, p.fld), !.fld = <<>>]

csv_after_newline(p, c) ==
  [csv_save_field(p) EXCEPT !.st = IF c = "EOL" THEN "START_RECORD" ELSE "EAT_CRNL"]

csv_start_field(p, c) ==
  IF c \in {"\n", "\r", "EOL"} THEN csv_after_newline(p, c)
  ELSE IF c = "\"" THEN [p EXCEPT !.st = "IN_QUOTED_FIELD"]
  ELSE IF c = "," THEN [csv_save_field(p) EXCEPT !.st = "START_FIELD"]
  ELSE [p EXCEPT !.fld = Append(p.fld, c), !.st = "IN_FIELD"]

csv_process_char(p, c) ==
  CASE p.st = "START_RECORD" ->
         IF c = "EOL" THEN p
         ELSE IF c \in {"\n", "\r"} THEN [p EXCEPT !.st = "EAT_CRNL"]
         ELSE csv_start_field(p, c)
    [] p.st = "START_FIELD" -> csv_start_field(p, c)
    [] p.st = "IN_FIELD" ->
         IF c \in {"\n", "\r", "EOL"} THEN csv_after_newline(p, c)
         ELSE IF c = "," THEN [csv_save_field(p) EXCEPT !.st = "START_FIELD"]
         ELSE [p EXCEPT !.fld = Append(p.fld, c)]
    [] p.st = "IN_QUOTED_FIELD" ->
         IF c = "EOL" THEN p
         ELSE IF c = "\"" THEN [p EXCEPT !.st = "QUOTE_IN_QUOTED_FIELD"]
         ELSE [p EXCEPT !.fld = Append(p.fld, c)]
    [] p.st = "QUOTE_IN_QUOTED_FIELD" ->
         IF c = "\"" THEN [p EXCEPT !.fld = Append(p.fld, c), !.st = "IN_QUOTED_FIELD"]
         ELSE IF c = "," THEN [csv_save_field(p) EXCEPT !.st = "START_FIELD"]
         ELSE IF c \in {"\n", "\r", "EOL"} THEN csv_after_newline(p, c)
         ELSE [p EXCEPT !.fld = Append(p.fld, c), !.st = "IN_FIELD"]
    [] p.st = "EAT_CRNL" ->
         IF c \in {"\n", "\r"} THEN p
         ELSE IF c = "EOL" THEN [p EXCEPT !.st = "START_RECORD"]
         ELSE [p EXCEPT !.err = "csv.Error"]

\* Reader.__next__ returns the record when a line ends in START_RECORD
csv_end_line(p) ==
  LET q == csv_process_char(p, "EOL")
  IN  IF q.err = "none" /\ q.st = "START_RECORD"
        THEN [q EXCEPT !.rows = Append(q.rows, q.rec), !.rec = <<>>, !.fld = <<>>]
        ELSE q

\* one code point of the file, and the end of its line when it ends one
csv_step(text, i, p) ==
  LET q == csv_process_char(p, text[i])
  IN  IF q.err # "none" THEN q
      ELSE IF LineEndsAt(text, i) THEN csv_end_line(q)
      ELSE q

\* the code points lo..hi in order (halved, to keep the evaluation shallow)
RECURSIVE csv_parse(_, _, _, _)
csv_parse(text, lo, hi, p) ==
  IF p.err # "none" \/ lo > hi THEN p
  ELSE IF lo = hi THEN csv_step(text, lo, p)
  ELSE LET mid == (lo + hi) \div 2
           q == csv_parse(text, lo, mid, p)
       IN  IF q.err # "none" THEN q ELSE csv_parse(text, mid + 1, hi, q)

\* end of input inside a record: the open field is saved and returned
csv_end_input(p) ==
  IF p.err = "none" /\ (p.fld # <<>> \/ p.st = "IN_QUOTED_FIELD")
    THEN [p EXCEPT !.rows = Append(p.rows, Append(p.rec, p.fld)),
                   !.rec = <<>>, !.fld = <<>>]
    ELSE p

\* list(csv.reader(f)), or the error the iteration raises
csv_reader(text) ==
  IF \E i \in 1..Len(text) : text[i] = BadByte
    THEN [st |-> "START_RECORD", fld |-> <<>>, rec |-> <<>>, rows |-> <<>>,
          err |-> "UnicodeDecodeError"]
    ELSE csv_end_input(csv_parse(text, 1, Len(text),
                                 [st |-> "START_RECORD", fld |-> <<>>, rec |-> <<>>,
                                  rows |-> <<>>, err |-> "none"]))

\* csv.DictReader: row[key] of a data row under the header's fieldnames.
\* KeyErr when the header has no such column; None (restval) for a short row.
KeyErr == <<"<KeyError>">>

dictrow_get(fieldnames, row, key) ==
  IF ~\E j \in 1..Len(fieldnames) : fieldnames[j] = key THEN KeyErr
  ELSE IF \E j \in (Len(row) + 1)..Len(fieldnames) : fieldnames[j] = key THEN NoneVal
  ELSE LET js == {j \in 1..Len(fieldnames) : j <= Len(row) /\ fieldnames[j] = key}
           j == CHOOSE j \in js : \A k \in js : k <= j
       IN  row[j]

----------------------------------------------------------------------------
(* Text primitives of the guessers: \b, split, title, difflib              *)

\* \w of the re module, on the code points a normalized address can hold
IsWord(c) == c \in LowerSet \cup UpperSet \cup DigitChars \cup {"_"}

\* \b just before position p (1..Len(s)+1)
WordBoundary(s, p) ==
  LET before == p > 1 /\ IsWord(s[p - 1])
      after == p <= Len(s) /\ IsWord(s[p])
  IN  before # after

\* re.search(rf"\b{re.escape(a)}\b", s)
re_search_word(a, s) ==
  \E i \in 1..(Len(s) - Len(a) + 1) :
    /\ StartsWithAt(s, i, a)
    /\ WordBoundary(s, i)
    /\ WordBoundary(s, i + Len(a))

\* s.replace(",", " ").split(): the maximal runs of non-whitespace, in order
TokenStarts(s) ==
  {i \in 1..Len(s) : s[i] \notin Whitespace /\ (i = 1 \/ s[i - 1] \in Whitespace)}

TokenEnd(s, i) ==
  CHOOSE j \in i..Len(s) :
    /\ \A k \in i..j : s[k] \notin Whitespace
    /\ (j = Len(s) \/ s[j + 1] \in Whitespace)

RECURSIVE TokensFrom(_, _)
TokensFrom(s, starts) ==
  IF starts = {} THEN <<>>
  ELSE LET i == CHOOSE i \in starts : \A k \in starts : i <= k
       IN  <<SubSeq(s, i, TokenEnd(s, i))>> \o TokensFrom(s, starts \ {i})

tokens_of(s) == TokensFrom(s, TokenStarts(s))

split_tokens(addr_norm) == tokens_of(replace(addr_norm, <<",">>, <<" ">>))

\* toks + [" ".join(toks[i:i+2]) for i in range(len(toks)-1)]
grams_of(toks) ==
  toks \o [i \in 1..(Len(toks) - 1) |-> toks[i] \o <<" ">> \o toks[i + 1]]

\* str.title(): a cased letter is upper after an uncased code point, else lower
IsCased(c) == c \in LowerSet \cup UpperSet

title(s) ==
  [k \in 1..Len(s) |->
     IF ~IsCased(s[k]) THEN s[k]
     ELSE IF k > 1 /\ IsCased(s[k - 1]) THEN lowerChar(s[k]) ELSE upperChar(s[k])]

\* code point order of the characters of a normalized string
AsciiOrder == S(" ,-/0123456789abcdefghijklmnopqrstuvwxyz")

ord(c) == CHOOSE k \in 1..Len(AsciiOrder) : AsciiOrder[k] = c

\* a < b for two str
str_less(a, b) ==
  \E k \in 1..Len(b) :
    /\ \A j \in 1..(k - 1) : j <= Len(a) /\ a[j] = b[j]
    /\ \/ k = Len(a) + 1
       \/ k <= Len(a) /\ ord(a[k]) < ord(b[k])

\* difflib.SequenceMatcher: length of the common run of a[i..ahi] and b[j..bhi]
RECURSIVE common_len(_, _, _, _, _, _)
common_len(a, i, ahi, b, j, bhi) ==
  IF i > ahi \/ j > bhi \/ a[i] # b[j] THEN 0
  ELSE 1 + common_len(a, i + 1, ahi, b, j + 1, bhi)

\* block (i, j) is longer than block o, or as long and not later in a, then b
better_block(a, ahi, b, bhi, ij, o) ==
  \/ common_len(a, o[1], ahi, b, o[2], bhi) < common_len(a, ij[1], ahi, b, ij[2], bhi)
  \/ /\ common_len(a, o[1], ahi, b, o[2], bhi) = common_len(a, ij[1], ahi, b, ij[2], bhi)
     /\ (ij[1] < o[1] \/ (ij[1] = o[1] /\ ij[2] <= o[2]))

\* the block that starts at ij, with its size
block_at(a, ahi, b, bhi, ij) == <<ij[1], ij[2], common_len(a, ij[1], ahi, b, ij[2], bhi)>>

\* the best of the candidate starts, or the empty block at (alo, blo)
best_block(a, alo, ahi, b, blo, bhi, cands) ==
  IF cands = {} THEN <<alo, blo, 0>>
  ELSE block_at(a, ahi, b, bhi,
                CHOOSE ij \in cands : \A o \in cands : better_block(a, ahi, b, bhi, ij, o))

\* find_longest_match: the longest block, earliest in a, then earliest in b
find_longest_match(a, alo, ahi, b, blo, bhi) ==
  best_block(a, alo, ahi, b, blo, bhi,
             {ij \in (alo..ahi) \X (blo..bhi) : a[ij[1]] = b[ij[2]]})

\* the number of matched code points over get_matching_blocks()
RECURSIVE match_count(_, _, _, _, _, _)

\* the block m, and the matches to its left and to its right
match_around(a, alo, ahi, b, blo, bhi, m) ==
  IF m[3] = 0 THEN 0
  ELSE m[3]
       + match_count(a, alo, m[1] - 1, b, blo, m[2] - 1)
       + match_count(a, m[1] + m[3], ahi, b, m[2] + m[3], bhi)

match_count(a, alo, ahi, b, blo, bhi) ==
  IF alo > ahi \/ blo > bhi THEN 0
  ELSE match_around(a, alo, ahi, b, blo, bhi, find_longest_match(a, alo, ahi, b, blo, bhi))

\* 2 * matches / total >= num / den
at_least(matches, total, num, den) == 2 * matches * den >= num * total

\* real_quick_ratio() >= num/den and ratio() >= num/den, ratio = 2M/T
ratio_ge(a, b, num, den) ==
  IF Len(a) + Len(b) = 0 THEN TRUE
  ELSE /\ at_least(Len(a), Len(a) + Len(b), num, den)
       /\ at_least(Len(b), Len(a) + Len(b), num, den)
       /\ at_least(match_count(a, 1, Len(a), b, 1, Len(b)), Len(a) + Len(b), num, den)

\* (sx / tx, x) <= (sy / ty, y): the order of the (ratio, string) pairs
pair_le(sx, tx, x, sy, ty, y) ==
  sx * ty < sy * tx \/ (sx * ty = sy * tx /\ (x = y \/ str_less(x, y)))

\* (ratio(x), x) <= (ratio(y), y) against word
score_le(x, y, word) ==
  pair_le(match_count(x, 1, Len(x), word, 1, Len(word)), Len(x) + Len(word), x,
          match_count(y, 1, Len(y), word, 1, Len(word)), Len(y) + Len(word), y)

\* nlargest(1, ...): the largest (ratio, string) pair's string, or None
best_match(close, word) ==
  IF close = {} THEN NoneVal
  ELSE CHOOSE y \in close : \A x \in close : score_le(x, y, word)

\* get_close_matches(word, possibilities, n=1, cutoff=num/den): the best
\* (ratio, x), or None
get_close_matches(word, possibilities, num, den) ==
  best_match({x \in possibilities : ratio_ge(x, word, num, den)}, word)

----------------------------------------------------------------------------
(* Guessers (offline text)                                                 *)

\* the keys the first loop of guess_area can return: every key found in the
\* address; which one comes first is the iteration order of AREA_KEYS
area_matches(addr_norm) == {a \in AREA_KEYS : re_search_word(a, addr_norm)}

\* m if it is a match, else the result of the rest of the loop
RECURSIVE first_close_gram(_, _)

gram_or_next(m, grams, k) == IF m # NoneVal THEN m ELSE first_close_gram(grams, k + 1)

first_close_gram(grams, k) ==
  IF k > Len(grams) THEN NoneVal
  ELSE gram_or_next(get_close_matches(normalize(grams[k]), AREA_KEYS, 9, 10), grams, k)

\* guess_area; first is the key the first loop meets first, when it meets one
guess_area(addr_norm, first) ==
  IF area_matches(addr_norm) # {} THEN first
  ELSE first_close_gram(grams_of(split_tokens(addr_norm)), 1)

district_matches(addr_norm) == {d \in DISTRICT_KEYS : re_search_word(d, addr_norm)}

RECURSIVE first_close_token(_, _)

token_or_next(m, toks, k) == IF m # NoneVal THEN m ELSE first_close_token(toks, k + 1)

first_close_token(toks, k) ==
  IF k > Len(toks) THEN NoneVal
  ELSE token_or_next(get_close_matches(toks[k], NormDistricts, 22, 25), toks, k)

\* if a: return EXPANDED_AREA.get(a), else the fuzzy loop over the tokens
district_of_area(a, addr_norm) ==
  IF Truthy(a) THEN EXPANDED_AREA[a] ELSE first_close_token(split_tokens(addr_norm), 1)

\* guess_district_from_text; dfirst and afirst are the keys the two scans
\* meet first
guess_district_from_text(addr_norm, dfirst, afirst) ==
  IF district_matches(addr_norm) # {} THEN alias_get(dfirst)
  ELSE district_of_area(guess_area(addr_norm, afirst), addr_norm)

----------------------------------------------------------------------------
(* Gazetteer (offline CSV)                                                 *)

\* row.get(key) of a DictReader row: None when the header has no such column
dictrow_get_default(fieldnames, row, key) ==
  LET v == dictrow_get(fieldnames, row, key) IN IF v = KeyErr THEN NoneVal ELSE v

\* x or y
py_or(x, y) == IF Truthy(x) THEN x ELSE y

\* the loop of load_csv_gazetteer over the data rows
RECURSIVE gazetteer_rows(_, _, _, _)
gazetteer_rows(fieldnames, rows, k, acc) ==
  IF k > Len(rows) THEN acc
  ELSE IF rows[k] = <<>> THEN gazetteer_rows(fieldnames, rows, k + 1, acc)
  ELSE LET get(key) == dictrow_get_default(fieldnames, rows[k], S(key))
           th == normalize(py_or(get("thana"), py_or(get("upazila"), py_or(get("area"), <<>>))))
           dist == normalize(py_or(get("district"), <<>>))
       IN  gazetteer_rows(fieldnames, rows, k + 1,
                          IF Truthy(th) /\ Truthy(dist) THEN Append(acc, <<th, dist>>) ELSE acc)

\* load_csv_gazetteer: [err, rows]
load_csv_gazetteer(path, file) ==
  IF ~Truthy(path) \/ file = AbsentFile THEN [err |-> "none", rows |-> <<>>]
  ELSE LET r == csv_reader(file)
       IN  IF r.err # "none" THEN [err |-> r.err, rows |-> <<>>]
           ELSE IF r.rows = <<>> THEN [err |-> "none", rows |-> <<>>]
           ELSE [err |-> "none", rows |-> gazetteer_rows(r.rows[1], r.rows, 2, <<>>)]

\* make_offline_index: the seed, overlaid with the rows in order
make_offline_index(pairs) ==
  LET own == {pairs[j][1] : j \in 1..Len(pairs)}
      last(k) == CHOOSE j \in 1..Len(pairs) :
                   /\ pairs[j][1] = k
                   /\ \A m \in (j + 1)..Len(pairs) : pairs[m][1] # k
  IN  [k \in DOMAIN EXPANDED_AREA \cup own |->
         IF k \in own THEN pairs[last(k)][2] ELSE EXPANDED_AREA[k]]

----------------------------------------------------------------------------
(* Cache (for online): load_cache and save_cache                           *)

CacheHeader == <<S("address"), S("district"), S("thana")>>

\* save_cache: the file after the call (old is the file before it)
save_cache(path, cache_dict, old) ==
  IF ~Truthy(path) THEN old
  ELSE csv_writerow(CacheHeader) \o csv_writerows(cache_dict)

\* the loop of load_cache over the data rows; DictReader skips rows equal to []
RECURSIVE load_rows(_, _, _, _)
load_rows(fieldnames, rows, k, acc) ==
  IF k > Len(rows) THEN [err |-> "none", cache |-> acc]
  ELSE IF rows[k] = <<>> THEN load_rows(fieldnames, rows, k + 1, acc)
  ELSE LET a == dictrow_get(fieldnames, rows[k], S("address"))
           d == dictrow_get(fieldnames, rows[k], S("district"))
           t == dictrow_get(fieldnames, rows[k], S("thana"))
       IN  IF KeyErr \in {a, d, t} THEN [err |-> "KeyError", cache |-> acc]
           ELSE load_rows(fieldnames, rows, k + 1, dict_set(acc, a, d, t))

\* load_cache: [err, cache]; err # "none" is the exception that leaves the call
load_cache(path, file) ==
  IF ~(Truthy(path) /\ file # AbsentFile) THEN [err |-> "none", cache |-> <<>>]
  ELSE LET r == csv_reader(file)
       IN  IF r.err # "none" THEN [err |-> r.err, cache |-> <<>>]
           ELSE IF r.rows = <<>> THEN [err |-> "none", cache |-> <<>>]
           ELSE load_rows(r.rows[1], r.rows, 2, <<>>)

----------------------------------------------------------------------------
(* Enrichment logic: offline_enrich                                        *)

NotFound == S("Not found")

\* the token scan of offline_enrich: the first gram whose normal form is a
\* key of omap, or None
RECURSIVE first_map_gram(_, _, _)

map_gram_or_next(g_norm, grams, omap, k) ==
  IF g_norm \in DOMAIN omap THEN g_norm ELSE first_map_gram(grams, omap, k + 1)

first_map_gram(grams, omap, k) ==
  IF k > Len(grams) THEN NoneVal
  ELSE map_gram_or_next(normalize(grams[k]), grams, omap, k)

\* thana_out of a guessed area
area_label(a) == replace(title(replace(a, S(" r a"), S(" R/A"))), S("R/a"), S("R/A"))

\* the token scan's part: a field still "Not found" takes the gram's value
scan_fill(cur, g_norm, value) ==
  IF g_norm # NoneVal /\ cur = NotFound THEN title(value) ELSE cur

\* the pair offline_enrich returns, from d, a and the gram the scan found
offline_pair(d, a, g_norm, omap) ==
  << scan_fill(IF Truthy(d) THEN title(d) ELSE NotFound, g_norm,
               IF g_norm # NoneVal THEN omap[g_norm] ELSE NoneVal),
     scan_fill(IF Truthy(a) THEN area_label(a) ELSE NotFound, g_norm, g_norm) >>

\* offline_enrich; dfirst and afirst are the keys the scans of DISTRICT_KEYS
\* and AREA_KEYS meet first
offline_enrich(addr_norm, omap, dfirst, afirst) ==
  offline_pair(guess_district_from_text(addr_norm, dfirst, afirst),
               guess_area(addr_norm, afirst),
               first_map_gram(grams_of(split_tokens(addr_norm)), omap, 1),
               omap)

\* the keys a scan can meet first: any key found in the address
first_keys(matches) == IF matches = {} THEN {NoneVal} ELSE matches

\* every result offline_enrich can give, over the iteration orders of
\* AREA_KEYS and DISTRICT_KEYS
offline_results(addr_norm, omap) ==
  {offline_enrich(addr_norm, omap, dfirst, afirst) :
     dfirst \in first_keys(district_matches(addr_norm)),
     afirst \in first_keys(area_matches(addr_norm))}

----------------------------------------------------------------------------
(* Online (OSM): nominatim_lookup                                          *)

\* attempts: the four phrasings of the query, in order
attempts(address) ==
  LET raw == strip(py_or(address, <<>>))
  IN  << raw,
         bangla_normalize_text(raw),
         IF ~Contains(lower(raw), S("bangladesh")) THEN raw \o S(", Bangladesh") ELSE raw,
         collapse_ws(replace(raw, <<",">>, <<" ">>)) \o S(", Bangladesh") >>

\* if not q or len(q.strip()) < 3: continue
skipped(q) == ~Truthy(q) \/ Len(strip(q)) < 3

\* a JSON value of the response that is truthy and not a str
NonStr == <<"<int>">>

\* comp.get(key)
comp_get(comp, key) ==
  IF \E j \in 1..Len(comp) : comp[j][1] = key
    THEN comp[CHOOSE j \in 1..Len(comp) : comp[j][1] = key][2]
    ELSE NoneVal

DistrictFields == <<"state_district", "district", "county", "state">>

ThanaFields ==
  <<"suburb", "neighbourhood", "city_district", "municipality", "borough",
    "town", "city", "village", "police">>

\* comp.get(k1) or comp.get(k2) or ...
RECURSIVE or_chain(_, _, _)
or_chain(comp, fields, k) ==
  IF k >= Len(fields) THEN comp_get(comp, fields[k])
  ELSE py_or(comp_get(comp, fields[k]), or_chain(comp, fields, k + 1))

\* fix(x): x.title() if x else None
fix(x) == IF Truthy(x) THEN title(x) ELSE NoneVal

\* what the body of the try block does with the response of one request:
\* the exception it raises, or "none"
raised(r) ==
  CASE r.kind = "request_error" -> "RequestException"
    [] r.kind = "status" -> "none"
    [] r.kind = "json_error" -> "JSONDecodeError"
    [] r.kind = "empty" -> "none"
    [] r.kind = "not_a_list" -> "KeyError"
    [] r.kind = "result" ->
         IF NonStr \in {or_chain(r.comp, DistrictFields, 1),
                        or_chain(r.comp, ThanaFields, 1)}
           THEN "AttributeError" ELSE "none"

\* a handler that catches nothing
caught_none(exc) == FALSE

\* except Exception: every exception of the try block is caught
caught(exc) == TRUE

\* one pass of the loop body after the request: "continue" (after a sleep),
\* "return" with the pair, or "raise"
handle_response(r) ==
  LET exc == raised(r)
  IN  IF exc # "none"
        THEN IF caught(exc) THEN [act |-> "continue", exc |-> exc, val |-> <<NoneVal, NoneVal>>]
             ELSE [act |-> "raise", exc |-> exc, val |-> <<NoneVal, NoneVal>>]
      ELSE IF r.kind \in {"status", "empty"}
        THEN [act |-> "continue", exc |-> "none", val |-> <<NoneVal, NoneVal>>]
      ELSE [act |-> "return", exc |-> "none",
            val |-> <<fix(or_chain(r.comp, DistrictFields, 1)),
                      fix(or_chain(r.comp, ThanaFields, 1))>>]

\* a sleep that does not take place
time_sleep_skipped(ev) == ev

\* time.sleep(1.1): the latest event of the run is now a wait of 1.1 s
time_sleep(ev) == "sleep"

----------------------------------------------------------------------------
(* Enrichment logic: online_enrich                                         *)

\* a cache that is never consulted
cache_hit_never(address, cache_dict) == FALSE

\* address in cache
cache_hit(address, cache_dict) == dict_has(cache_dict, address)

\* the pair as it is, blanks included
or_raw(pair) == pair

\* d or "Not found", t or "Not found"
or_not_found(pair) == <<py_or(pair[1], NotFound), py_or(pair[2], NotFound)>>

----------------------------------------------------------------------------
(* run(): the per-row policy                                               *)

NonePair == <<NoneVal, NoneVal>>

NoResp == [kind |-> "none", comp |-> <<>>]

\* a service that may answer a request with any response
AnyService == <<>>

\* no earlier run to compare with
NoRun == [ran |-> FALSE, out |-> NonePair, cache |-> <<>>, reqs |-> <<>>]

\* "" if pd.isna(raw) else str(raw)
cell_addr(raw) == IF raw = NaNVal THEN <<>> ELSE raw

\* str(cell) of a District/Thana cell
cell_str(cell) == IF cell = NaNVal THEN S("nan") ELSE cell

\* if not str(enriched.at[i, COL]).strip(): enriched.at[i, COL] = value
fill(cell, value) == IF ~Truthy(strip(cell_str(cell))) THEN value ELSE cell

\* a merge that always takes the online value
merge_auto_online(cur, d2) == d2

\* auto: if district_out == "Not found": district_out = d2 (each field)
merge_auto(cur, d2) == IF cur = NotFound THEN d2 ELSE cur

\* a retry pass that keeps what the row has
merge_retry_never(cur, d3) == cur

\* retry: if district_out == "Not found" and d3: district_out = d3
merge_retry(cur, d3) == IF cur = NotFound /\ Truthy(d3) THEN d3 ELSE cur

\* district_out == "Not found" or thana_out == "Not found"
unresolved(pair) == pair[1] = NotFound \/ pair[2] = NotFound

----------------------------------------------------------------------------
(* The parts of the state a specification does not use                     *)

NoLoad == [err |-> "none", cache |-> <<>>]

CsvIdle ==
  /\ cache_path = NoneVal
  /\ store = AbsentFile
  /\ cache = <<>>
  /\ loaded = NoLoad
  /\ cpc = "idle"

NormIdle ==
  /\ nx = <<>>
  /\ ny = <<>>
  /\ nz = <<>>
  /\ npc = "idle"

----------------------------------------------------------------------------
(* Specification Spec: one run() over a sheet of at most MaxRows rows.     *)

MaxRows == 2

Modes == {"offline", "online", "auto"}

\* the address cells of the sheet
RawCells == {S("Gulshan-1, Dhaka"), S("Feni"), S("12 Unknown St"), NaNVal}

AddrStrings == {cell_addr(raw) : raw \in RawCells}

GazetteerFile == S("thana,district\r\nGulshan,Gazipur\r\nUnknown,Sylhet\r\n")

GazetteerConfigs == {<<NoneVal, AbsentFile>>, <<S("gazetteer.csv"), GazetteerFile>>}

\* a cache file with a full row, a row with a blank district and a short row
CacheFileRows ==
  S("address,district,thana\r\n12 Unknown St,Sylhet,Kotwali\r\nFeni,,Feni Sadar\r\n\"Gulshan-1, Dhaka\",Dhaka\r\n")

CacheFileNoThana == S("address,district\r\n12 Unknown St,Sylhet\r\n")

CacheConfigs ==
  { <<NoneVal, AbsentFile>>,
    <<S("cache_geocode.csv"), AbsentFile>>,
    <<S("cache_geocode.csv"), CacheFileRows>>,
    <<S("cache_geocode.csv"), CacheFileNoThana>> }

\* the District/Thana columns the input sheet can have
ColumnSets == {{}, {"District", "Thana"}}

\* a cell of a column the sheet has: empty (NaN), whitespace, a value
SheetCells == {NaNVal, S("  "), S("Old")}

\* the value of the column's cell before the fill: "" when run() created it
cells_of(col) == IF col \in columns THEN SheetCells ELSE {<<>>}

\* the address component dicts of the service's first result
Comps ==
  { << <<"state_district", S("dhaka district")>>, <<"suburb", S("gulshan")>>,
       <<"city", S("dhaka")>> >>,
    << <<"state", S("sylhet division")>> >>,
    <<>>,
    << <<"county", NonStr>> >> }

\* what one request can come back with
Responses ==
  {[kind |-> k, comp |-> <<>>] :
     k \in {"request_error", "status", "json_error", "empty", "not_a_list"}}
  \cup {[kind |-> "result", comp |-> c] : c \in Comps}

\* what the service can answer to the request of attempt k
answers(service, k) == IF service = AnyService THEN Responses ELSE {service[k]}

RunIdle ==
  /\ mode = "auto"
  /\ retry_online_notfound = TRUE
  /\ gazetteer_csv = NoneVal
  /\ gazetteer_file = AbsentFile
  /\ columns = {}
  /\ csv_rows = <<>>
  /\ pc = "idle"
  /\ err = "none"
  /\ row_i = 0
  /\ addr = <<>>
  /\ out = NonePair
  /\ d1t1 = NonePair
  /\ d2t2 = NonePair
  /\ d3t3 = NonePair
  /\ pre = NonePair
  /\ post = NonePair
  /\ ret = "none"
  /\ on = NonePair
  /\ att = 0
  /\ resp = NoResp
  /\ look = NonePair
  /\ row_calls = 0
  /\ row_cache = <<>>
  /\ call_cache = <<>>
  /\ call_net = 0
  /\ call_fail = 0
  /\ call_sleeps = 0
  /\ lookups = [a \in AddrStrings |-> 0]
  /\ lastev = "none"
  /\ row_reqs = <<>>
  /\ svc = AnyService
  /\ first_run = NoRun

Init ==
  /\ mode \in Modes
  /\ retry_online_notfound \in BOOLEAN
  /\ \E g \in GazetteerConfigs : gazetteer_csv = g[1] /\ gazetteer_file = g[2]
  /\ \E c \in CacheConfigs : cache_path = c[1] /\ store = c[2]
  /\ columns \in ColumnSets
  /\ cache = <<>>
  /\ loaded = NoLoad
  /\ cpc = "idle"
  /\ csv_rows = <<>>
  /\ pc = "load"
  /\ err = "none"
  /\ row_i = 0
  /\ addr = <<>>
  /\ out = NonePair
  /\ d1t1 = NonePair
  /\ d2t2 = NonePair
  /\ d3t3 = NonePair
  /\ pre = NonePair
  /\ post = NonePair
  /\ ret = "none"
  /\ on = NonePair
  /\ att = 0
  /\ resp = NoResp
  /\ look = NonePair
  /\ row_calls = 0
  /\ row_cache = <<>>
  /\ call_cache = <<>>
  /\ call_net = 0
  /\ call_fail = 0
  /\ call_sleeps = 0
  /\ lookups = [a \in AddrStrings |-> 0]
  /\ lastev = "none"
  /\ row_reqs = <<>>
  /\ svc = AnyService
  /\ first_run = NoRun
  /\ NormIdle

fixedvars == <<normvars, cfgvars, cache_path, loaded, cpc, first_run>>

\* offline_map = make_offline_index(load_csv_gazetteer(gazetteer_csv))
offline_map == make_offline_index(csv_rows)

\* load_csv_gazetteer(gazetteer_csv) and cache = load_cache(cache_path)
Load ==
  /\ pc = "load"
  /\ LET g == IF Truthy(gazetteer_csv)
                THEN load_csv_gazetteer(gazetteer_csv, gazetteer_file)
                ELSE [err |-> "none", rows |-> <<>>]
         c == IF Truthy(cache_path) THEN load_cache(cache_path, store) ELSE NoLoad
     IN  IF g.err # "none"
           THEN /\ err' = g.err
                /\ pc' = "crashed"
                /\ UNCHANGED <<csv_rows, cache>>
         ELSE IF c.err # "none"
           THEN /\ csv_rows' = g.rows
                /\ err' = c.err
                /\ pc' = "crashed"
                /\ UNCHANGED cache
         ELSE /\ csv_rows' = g.rows
              /\ cache' = c.cache
              /\ pc' = "row"
              /\ UNCHANGED err
  /\ UNCHANGED <<fixedvars, store, rowvars, callvars, obsvars>>

\* the loop takes the next row: addr, and the row's initial result
StartRow ==
  /\ pc = "row"
  /\ row_i < MaxRows
  /\ \E raw \in RawCells : addr' = cell_addr(raw)
  /\ row_i' = row_i + 1
  /\ out' = <<NotFound, NotFound>>
  /\ d1t1' = NonePair
  /\ d2t2' = NonePair
  /\ d3t3' = NonePair
  /\ pre' = NonePair
  /\ post' = NonePair
  /\ row_calls' = 0
  /\ row_cache' = cache
  /\ row_reqs' = <<>>
  /\ pc' = "mode"
  /\ UNCHANGED <<fixedvars, store, cache, csv_rows, err, callvars,
                 call_cache, call_net, call_fail, call_sleeps, lookups, lastev>>

\* nothing of an online_enrich call is observed yet
ResetCall ==
  /\ on' = NonePair
  /\ call_cache' = cache
  /\ call_net' = 0
  /\ call_fail' = 0
  /\ call_sleeps' = 0

\* online_enrich(addr, cache) is entered from the call site
CallOnline(site) ==
  /\ pc' = "online"
  /\ ret' = site
  /\ row_calls' = row_calls + 1
  /\ ResetCall

\* if mode == "offline"
ModeOffline ==
  /\ pc = "mode"
  /\ mode = "offline"
  /\ \E r \in offline_results(normalize(addr), offline_map) : out' = r
  /\ pc' = "retry"
  /\ ResetCall
  /\ UNCHANGED <<fixedvars, store, cache, csv_rows, err, row_i, addr, d1t1, d2t2,
                 d3t3, pre, post, ret, att, resp, look, row_calls, row_cache, lookups,
                 lastev, row_reqs>>

\* elif mode == "online"
ModeOnline ==
  /\ pc = "mode"
  /\ mode = "online"
  /\ CallOnline("online")
  /\ UNCHANGED <<fixedvars, store, cache, csv_rows, err, rowvars, att, resp, look,
                 row_cache, lookups, lastev, row_reqs>>

\* else (auto): offline first, online for what is still "Not found"
ModeAuto ==
  /\ pc = "mode"
  /\ mode = "auto"
  /\ \E r \in offline_results(normalize(addr), offline_map) :
       /\ d1t1' = r
       /\ out' = r
       /\ IF unresolved(r)
            THEN CallOnline("auto")
            ELSE /\ pc' = "retry"
                 /\ ResetCall
                 /\ UNCHANGED <<ret, row_calls>>
  /\ UNCHANGED <<fixedvars, store, cache, csv_rows, err, row_i, addr, d2t2, d3t3,
                 pre, post, att, resp, look, row_cache, lookups, lastev, row_reqs>>

\* online_enrich: if address in cache, return the cached pair with its blank
\* fields read as "Not found"
OnlineHit ==
  /\ pc = "online"
  /\ cache_hit(addr, cache)
  /\ on' = or_not_found(dict_get(cache, addr))
  /\ pc' = "ret"
  /\ UNCHANGED <<fixedvars, store, cache, csv_rows, err, rowvars, ret, att, resp,
                 look, obsvars>>

\* online_enrich: address not in cache, nominatim_lookup(address) begins
OnlineMiss ==
  /\ pc = "online"
  /\ ~cache_hit(addr, cache)
  /\ att' = 1
  /\ lookups' = [lookups EXCEPT ![addr] = @ + 1]
  /\ pc' = "attempt"
  /\ UNCHANGED <<fixedvars, store, cache, csv_rows, err, rowvars, ret, on, resp,
                 look, row_calls, row_cache, call_cache, call_net, call_fail,
                 call_sleeps, lastev, row_reqs>>

\* for q in attempts: a phrasing shorter than 3 characters is skipped
SkipAttempt ==
  /\ pc = "attempt"
  /\ att <= Len(attempts(addr))
  /\ skipped(attempts(addr)[att])
  /\ att' = att + 1
  /\ UNCHANGED <<fixedvars, store, cache, csv_rows, pc, err, rowvars, ret, on, resp,
                 look, obsvars>>

\* requests.get(...): one request, with whatever comes back
Request ==
  /\ pc = "attempt"
  /\ att <= Len(attempts(addr))
  /\ ~skipped(attempts(addr)[att])
  /\ \E r \in answers(svc, att) : resp' = r
  /\ call_net' = call_net + 1
  /\ lastev' = "request"
  /\ row_reqs' = Append(row_reqs, att)
  /\ pc' = "response"
  /\ UNCHANGED <<fixedvars, store, cache, csv_rows, err, rowvars, ret, on, att,
                 look, row_calls, row_cache, call_cache, call_fail, call_sleeps,
                 lookups>>

\* the rest of the loop body: sleep and continue, or return the pair
HandleResponse ==
  /\ pc = "response"
  /\ LET h == handle_response(resp)
     IN  CASE h.act = "continue" ->
                /\ call_sleeps' = call_sleeps + 1
                /\ lastev' = time_sleep(lastev)
                /\ call_fail' = call_fail + 1
                /\ att' = att + 1
                /\ pc' = "attempt"
                /\ UNCHANGED <<look, err>>
           [] h.act = "return" ->
                /\ look' = h.val
                /\ pc' = "store"
                /\ UNCHANGED <<call_sleeps, lastev, call_fail, att, err>>
           [] h.act = "raise" ->
                /\ err' = h.exc
                /\ pc' = "crashed"
                /\ UNCHANGED <<call_sleeps, lastev, call_fail, att, look>>
  /\ resp' = NoResp
  /\ UNCHANGED <<fixedvars, store, cache, csv_rows, rowvars, ret, on,
                 row_calls, row_cache, call_cache, call_net, lookups, row_reqs>>

\* the attempts are exhausted: return None, None
LookupExhausted ==
  /\ pc = "attempt"
  /\ att > Len(attempts(addr))
  /\ look' = NonePair
  /\ pc' = "store"
  /\ UNCHANGED <<fixedvars, store, cache, csv_rows, err, rowvars, ret, on, att,
                 resp, obsvars>>

\* online_enrich after the lookup: sleep, write the pair to the cache, return it
OnlineStore ==
  /\ pc = "store"
  /\ call_sleeps' = call_sleeps + 1
  /\ lastev' = time_sleep(lastev)
  /\ LET v == or_not_found(look) IN cache' = dict_set(cache, addr, v[1], v[2])
  /\ on' = dict_get(cache', addr)
  /\ att' = 0
  /\ look' = NonePair
  /\ pc' = "ret"
  /\ UNCHANGED <<fixedvars, store, csv_rows, err, rowvars, ret, resp, row_calls,
                 row_cache, call_cache, call_net, call_fail, lookups, row_reqs>>

\* district_out, thana_out = online_enrich(addr, cache)
ReturnOnline ==
  /\ pc = "ret"
  /\ ret = "online"
  /\ out' = on
  /\ pc' = "retry"
  /\ UNCHANGED <<fixedvars, store, cache, csv_rows, err, row_i, addr, d1t1, d2t2,
                 d3t3, pre, post, callvars, obsvars>>

\* d2, t2 = online_enrich(addr, cache), merged field by field
ReturnAuto ==
  /\ pc = "ret"
  /\ ret = "auto"
  /\ d2t2' = on
  /\ out' = <<merge_auto(out[1], on[1]), merge_auto(out[2], on[2])>>
  /\ pc' = "retry"
  /\ UNCHANGED <<fixedvars, store, cache, csv_rows, err, row_i, addr, d1t1, d3t3,
                 pre, post, callvars, obsvars>>

\* the extra pass: still "Not found" and mode != "online"
RetryPass ==
  /\ pc = "retry"
  /\ retry_online_notfound /\ unresolved(out) /\ mode # "online"
  /\ CallOnline("retry")
  /\ UNCHANGED <<fixedvars, store, cache, csv_rows, err, rowvars, att, resp, look,
                 row_cache, lookups, lastev, row_reqs>>

NoRetry ==
  /\ pc = "retry"
  /\ ~(retry_online_notfound /\ unresolved(out) /\ mode # "online")
  /\ pc' = "fill"
  /\ UNCHANGED <<fixedvars, store, cache, csv_rows, err, rowvars, callvars, obsvars>>

\* d3, t3 = online_enrich(addr, cache), merged field by field
ReturnRetry ==
  /\ pc = "ret"
  /\ ret = "retry"
  /\ d3t3' = on
  /\ out' = <<merge_retry(out[1], on[1]), merge_retry(out[2], on[2])>>
  /\ pc' = "fill"
  /\ UNCHANGED <<fixedvars, store, cache, csv_rows, err, row_i, addr, d1t1, d2t2,
                 pre, post, callvars, obsvars>>

\* the row's District and Thana cells are filled where they are blank
FillRow ==
  /\ pc = "fill"
  /\ \E dcell \in cells_of("District"), tcell \in cells_of("Thana") :
       /\ pre' = <<dcell, tcell>>
       /\ post' = <<fill(dcell, out[1]), fill(tcell, out[2])>>
  /\ pc' = "row"
  /\ UNCHANGED <<fixedvars, store, cache, csv_rows, err, row_i, addr, out, d1t1,
                 d2t2, d3t3, callvars, obsvars>>

\* after the last row: if cache_path: save_cache(cache_path, cache)
Finish ==
  /\ pc = "row"
  /\ store' = save_cache(cache_path, cache, store)
  /\ pc' = "done"
  /\ UNCHANGED <<fixedvars, cache, csv_rows, err, rowvars, callvars, obsvars>>

Next ==
  \/ Load
  \/ StartRow
  \/ ModeOffline
  \/ ModeOnline
  \/ ModeAuto
  \/ OnlineHit
  \/ OnlineMiss
  \/ SkipAttempt
  \/ Request
  \/ HandleResponse
  \/ LookupExhausted
  \/ OnlineStore
  \/ ReturnOnline
  \/ ReturnAuto
  \/ RetryPass
  \/ NoRetry
  \/ ReturnRetry
  \/ FillRow
  \/ Finish

Spec == Init /\ [][Next]_vars

----------------------------------------------------------------------------
(* Properties of run() and online_enrich, checked under Spec               *)

\* the positions inside an online_enrich call
CallPcs == {"online", "attempt", "response", "store", "ret"}

\* C1: when online_enrich returns, the address is a key of the cache and the
\* cached pair is the pair just returned.
WriteThrough ==
  pc = "ret" => cache_hit(addr, cache) /\ dict_get(cache, addr) = on

\* C2: an online_enrich call that finds its address in the cache issues no
\* request, performs no sleep and leaves the cache as it was; over the rows of
\* a run nominatim_lookup is entered at most once per raw address.
CacheHitShortCircuits ==
  /\ (pc \in CallPcs /\ cache_hit(addr, call_cache)) =>
       /\ pc \in {"online", "ret"}
       /\ call_net = 0
       /\ call_sleeps = 0
       /\ cache = call_cache
  /\ \A a \in AddrStrings : lookups[a] <= 1

\* a hit on the sentinel pair that an earlier row of the same run cached
CacheHitShortCircuitsWitness ==
  /\ pc = "ret"
  /\ row_i = 2
  /\ cache_path = NoneVal
  /\ cache_hit(addr, call_cache)
  /\ on = <<NotFound, NotFound>>
  /\ lookups[addr] = 1

\* C3: a row processed in mode "offline" calls online_enrich never: no
\* request is issued and the cache stays as it was at the start of the row.
OfflineModeStaysOffline ==
  (mode = "offline" /\ row_i > 0) =>
    /\ row_calls = 0
    /\ call_net = 0
    /\ cache = row_cache

\* the auto branch's online_enrich call is in progress
InAutoCall == pc \in CallPcs /\ ret = "auto"

\* C4: in mode "auto", once the auto branch is done, a field offline_enrich
\* resolved holds the offline value, a field it left "Not found" holds the
\* value online_enrich returned for it, and online_enrich was not called
\* when offline_enrich resolved both.
AutoMerge ==
  (mode = "auto" /\ d1t1 # NonePair /\ ~InAutoCall) =>
    /\ \A c \in 1..2 :
         /\ d1t1[c] # NotFound => out[c] = d1t1[c]
         /\ d1t1[c] = NotFound => d2t2 # NonePair /\ out[c] = d2t2[c]
    /\ ~unresolved(d1t1) => row_calls = 0 /\ d2t2 = NonePair

\* offline gave the district only; online gave another district and a thana
AutoMergeWitness ==
  /\ mode = "auto"
  /\ pc = "fill"
  /\ d1t1 = <<S("Feni"), NotFound>>
  /\ d2t2 = <<S("Dhaka District"), S("Gulshan")>>
  /\ out = <<S("Feni"), S("Gulshan")>>

\* an empty cell, an empty string or a whitespace-only string
cell_blank(cell) == cell = NaNVal \/ strip(cell) = <<>>

\* C5: after the fill a District or Thana cell that was non-blank holds what
\* it held, and a cell that was blank holds the row's resolved value.
FillDiscipline ==
  (pc = "row" /\ row_i > 0) =>
    \A c \in 1..2 :
      IF cell_blank(pre[c]) THEN post[c] = out[c] ELSE post[c] = pre[c]

\* a non-empty str
IsLabel(x) == x \notin {<<>>, NoneVal, NaNVal, NonStr}

\* C6: the district and thana values of a row, and every pair online_enrich
\* returns, are non-empty strings: a label or "Not found", never None or "".
ResolvedFieldsAreLabels ==
  /\ row_i > 0 => IsLabel(out[1]) /\ IsLabel(out[2])
  /\ pc = "ret" => IsLabel(on[1]) /\ IsLabel(on[2])

\* a cached pair with a blank district and one with a None thana, both read
\* as "Not found"
ResolvedFieldsAreLabelsWitness ==
  /\ pc = "fill"
  /\ mode = "online"
  /\ cache_hit(addr, cache)
  /\ \/ dict_get(cache, addr)[1] = <<>> /\ out[1] = NotFound
     \/ dict_get(cache, addr)[2] = NoneVal /\ out[2] = NotFound

\* what a request can fail with
FailureKinds == {"request_error", "status", "json_error", "empty", "not_a_list"}

\* a failed request is followed by the next attempt
FailureAdvances ==
  (pc = "response" /\ resp.kind \in FailureKinds) => pc' = "attempt" /\ att' = att + 1

\* C10: a request that fails (transport error or timeout, non-200 status,
\* undecodable or empty or malformed response) makes nominatim_lookup go on
\* to the next attempt; no error leaves the lookup, so run() ends abnormally
\* only before its first row; and a lookup whose requests all failed makes
\* online_enrich return ("Not found", "Not found").
NetworkFailuresRecovered ==
  /\ [](pc = "crashed" => row_i = 0)
  /\ []((pc = "ret" /\ ~cache_hit(addr, call_cache) /\ call_fail = call_net) =>
          on = <<NotFound, NotFound>>)
  /\ [][FailureAdvances]_vars

\* the second row is taken after a row whose four requests all failed
NetworkFailuresRecoveredWitness ==
  /\ pc = "mode"
  /\ row_i = 2
  /\ call_net = 4
  /\ call_fail = 4
  /\ on = <<NotFound, NotFound>>

----------------------------------------------------------------------------
(* Properties of nominatim_lookup's loop, checked under Spec               *)

\* the phrasings of address that are not skipped
eligible(address) ==
  {k \in 1..Len(attempts(address)) : ~skipped(attempts(address)[k])}

\* a pair with a district or a thana
usable(pair) == pair[1] # NoneVal \/ pair[2] # NoneVal

\* a request is issued for the current phrasing, which is not a skipped one,
\* and the loop moves from a phrasing to the next one only
AttemptsInOrder ==
  /\ (pc = "attempt" /\ pc' = "response") =>
       att' = att /\ att \in eligible(addr)
  /\ (pc \in {"attempt", "response"} /\ pc' \in {"attempt", "response"}) =>
       att' \in {att, att + 1}

\* a response with a usable district or thana ends the lookup with that pair
StopsOnSuccess ==
  (pc = "response" /\ resp.kind = "result" /\ usable(handle_response(resp).val)
     /\ handle_response(resp).act = "return") =>
    pc' = "store" /\ look' = handle_response(resp).val

\* (None, None) leaves the lookup only after one request per eligible phrasing
AbsentOnlyWhenExhausted ==
  (pc = "store" /\ look = NonePair) => call_net = Cardinality(eligible(addr))

\* C12: nominatim_lookup issues its requests in the order of the phrasings,
\* none for a phrasing shorter than 3 characters; a usable result ends the
\* lookup at once; and (None, None) is returned only after a request was
\* issued for every eligible phrasing.
FallbackUntilSuccessOrExhausted ==
  /\ []AbsentOnlyWhenExhausted
  /\ [][AttemptsInOrder /\ StopsOnSuccess]_vars

\* C13: whenever a request is issued, a sleep of 1.1 s has been performed
\* since the request before it, be that request of the same lookup or of an
\* earlier row, and whether it failed or gave a result.
FixedRateThrottle ==
  [][(pc = "attempt" /\ pc' = "response") => lastev # "request"]_vars

\* the first request of the second row, after a first row whose request gave
\* a result
FixedRateThrottleWitness ==
  /\ pc = "response"
  /\ row_i = 2
  /\ row_reqs = <<1>>
  /\ lastev = "request"
  /\ \E a \in AddrStrings \ {addr} :
       /\ lookups[a] = 1
       /\ dict_get(cache, a) = <<S("Dhaka District"), S("Gulshan")>>

----------------------------------------------------------------------------
(* Specification SpecCsv: save_cache and load_cache on one store.          *)

MaxKeyLen == 2

CsvAlphabet == {"a", ",", "\"", "\n"}

CsvKeys == UNION { [1..n -> CsvAlphabet] : n \in 0..MaxKeyLen }

CsvVals == {S("Not found"), S("Cox'S Bazar"), S("a,\"b\""), S("\r\n"), <<>>}

CsvCaches ==
  {<<>>}
  \cup {<<<<k, d, t>>>> : k \in CsvKeys, d \in CsvVals, t \in CsvVals \cup {NoneVal}}
  \cup {<<<<S("old"), S("Dhaka"), S("Banani")>>, <<k, d, d>>>> : k \in CsvKeys, d \in CsvVals}

CsvStores ==
  { AbsentFile,
    <<>>,
    S("address,district,thana\r\nold,Dhaka,Banani\r\nnew,Feni,Not found\r\n"),
    S("address,district\r\nold,Dhaka\r\n"),
    S("address,district,thana\r\nold,Dhaka\r\n"),
    S("address,district,thana\r\nold,") \o <<BadByte>> \o S(",Banani\r\n") }

CsvPaths == {NoneVal, S("cache_geocode.csv")}

InitCsv ==
  /\ cache_path \in CsvPaths
  /\ store \in CsvStores
  /\ cache \in CsvCaches
  /\ loaded = NoLoad
  /\ cpc = "start"
  /\ NormIdle
  /\ RunIdle

\* load_cache(cache_path) on the store as found
LoadCache ==
  /\ cpc = "start"
  /\ loaded' = load_cache(cache_path, store)
  /\ cpc' = "loaded"
  /\ UNCHANGED <<normvars, runvars, cache_path, store, cache>>

\* save_cache(cache_path, cache)
SaveCache ==
  /\ cpc = "start"
  /\ store' = save_cache(cache_path, cache, store)
  /\ cpc' = "saved"
  /\ UNCHANGED <<normvars, runvars, cache_path, cache, loaded>>

\* load_cache(cache_path) after save_cache
ReloadCache ==
  /\ cpc = "saved"
  /\ loaded' = load_cache(cache_path, store)
  /\ cpc' = "reloaded"
  /\ UNCHANGED <<normvars, runvars, cache_path, store, cache>>

NextCsv == LoadCache \/ SaveCache \/ ReloadCache

SpecCsv == InitCsv /\ [][NextCsv]_vars

\* every value of the dict is a str (no None left by a short row)
AllStr(d) == \A j \in 1..Len(d) : d[j][2] # NoneVal /\ d[j][3] # NoneVal

\* save_cache writes the header and one row per entry, whatever the store held
SaveOverwrites ==
  (cpc = "start" /\ cpc' = "saved" /\ Truthy(cache_path)) =>
    store' = csv_writerow(CacheHeader) \o csv_writerows(cache)

\* save_cache with no destination leaves the store as it was
SaveNoDestination ==
  (cpc = "start" /\ cpc' = "saved" /\ ~Truthy(cache_path)) => store' = store

\* load_cache after save_cache gives back the cache, key for key
LoadGivesBack ==
  (cpc = "reloaded" /\ Truthy(cache_path) /\ AllStr(cache)) =>
    /\ loaded.err = "none"
    /\ dict_keys(loaded.cache) = dict_keys(cache)
    /\ \A k \in dict_keys(cache) : dict_get(loaded.cache, k) = dict_get(cache, k)

\* C8: save_cache then load_cache on the same store gives back the cache, key
\* for key and pair for pair, whatever the store held before (full
\* overwrite); with no destination configured save_cache leaves the store
\* as it was.
CacheRoundTrip ==
  /\ []LoadGivesBack
  /\ [][SaveOverwrites /\ SaveNoDestination]_vars

CacheRoundTripWitness ==
  /\ cpc = "reloaded"
  /\ Truthy(cache_path)
  /\ Len(cache) = 2
  /\ cache[2] = <<S(",\""), S("a,\"b\""), S("a,\"b\"")>>
  /\ loaded.cache = cache

\* C9: load_cache never raises, whatever the store holds.
LoadNeverRaises == cpc = "loaded" => loaded.err = "none"

----------------------------------------------------------------------------
(* Specification SpecNorm: normalize applied once and twice to an input    *)
(* built from at most MaxPieces pieces.                                    *)

MaxPieces == 3

NormPieces ==
  {S("badda"), S("thana"), S(" "), S("."), S("CTG"), S("gulshan"), S("-1")}

RECURSIVE Concat(_)
Concat(ps) == IF ps = <<>> THEN <<>> ELSE Head(ps) \o Concat(Tail(ps))

NormInputs ==
  {NoneVal} \cup
  UNION { {Concat(ps) : ps \in [1..n -> NormPieces]} : n \in 0..MaxPieces }

InitNorm ==
  /\ nx \in NormInputs
  /\ ny = <<>>
  /\ nz = <<>>
  /\ npc = "input"
  /\ CsvIdle
  /\ RunIdle

NormalizeOnce ==
  /\ npc = "input"
  /\ ny' = normalize(nx)
  /\ npc' = "once"
  /\ UNCHANGED <<nx, nz>>
  /\ UNCHANGED <<csvvars, runvars>>

NormalizeTwice ==
  /\ npc = "once"
  /\ nz' = normalize(ny)
  /\ npc' = "twice"
  /\ UNCHANGED <<nx, ny>>
  /\ UNCHANGED <<csvvars, runvars>>

NextNorm == NormalizeOnce \/ NormalizeTwice

SpecNorm == InitNorm /\ [][NextNorm]_vars

\* C7: normalize(normalize(x)) = normalize(x) for every input x.
NormalizeIdempotent == npc = "twice" => nz = ny

----------------------------------------------------------------------------
(* Specification SpecOffline: offline_enrich over a gazetteer file.        *)

\* addresses that name an area, with or without a house number, and then end
\* or name a district
OffAddresses ==
  {p \o a \o x : p \in {<<>>, S("12 ")},
                 a \in {S("Gulshan"), S("Tongi"), S("Unknown"), S("Bashundhara R/A")},
                 x \in {<<>>, S(", Dhaka"), S(", Gazipur")}}

\* gazetteer files: the header alone, a line against the seed, a line that
\* agrees with the seed, two lines on one key, lines on other keys, and the
\* upazila header
OffGazetteers ==
  { S("thana,district\r\n"),
    S("thana,district\r\nGulshan,Gazipur\r\n"),
    S("thana,district\r\nGulshan,Dhaka\r\n"),
    S("thana,district\r\nGulshan,Gazipur\r\ngulshan,Narayanganj\r\n"),
    S("thana,district\r\nTongi,Gazipur\r\nUnknown,Sylhet\r\n"),
    S("upazila,district\r\nTongi,Feni\r\nGulshan,\r\n") }

InitOffline ==
  /\ mode = "offline"
  /\ retry_online_notfound = FALSE
  /\ gazetteer_csv = S("gazetteer.csv")
  /\ gazetteer_file \in OffGazetteers
  /\ columns = {}
  /\ csv_rows = <<>>
  /\ pc = "gazetteer"
  /\ err = "none"
  /\ row_i = 0
  /\ addr \in OffAddresses
  /\ out = NonePair
  /\ d1t1 = NonePair
  /\ d2t2 = NonePair
  /\ d3t3 = NonePair
  /\ pre = NonePair
  /\ post = NonePair
  /\ ret = "none"
  /\ on = NonePair
  /\ att = 0
  /\ resp = NoResp
  /\ look = NonePair
  /\ row_calls = 0
  /\ row_cache = <<>>
  /\ call_cache = <<>>
  /\ call_net = 0
  /\ call_fail = 0
  /\ call_sleeps = 0
  /\ lookups = [a \in AddrStrings |-> 0]
  /\ lastev = "none"
  /\ row_reqs = <<>>
  /\ svc = AnyService
  /\ first_run = NoRun
  /\ NormIdle
  /\ CsvIdle

\* load_csv_gazetteer(gazetteer_csv); offline_map is its index over the seed
LoadGazetteer ==
  /\ pc = "gazetteer"
  /\ csv_rows' = load_csv_gazetteer(gazetteer_csv, gazetteer_file).rows
  /\ pc' = "indexed"
  /\ UNCHANGED <<normvars, csvvars, cfgvars, err, rowvars, callvars, obsvars, first_run>>

\* district_out, thana_out = offline_enrich(addr_norm, offline_map)
OfflineEnrich ==
  /\ pc = "indexed"
  /\ \E r \in offline_results(normalize(addr), offline_map) : out' = r
  /\ pc' = "enriched"
  /\ UNCHANGED <<normvars, csvvars, cfgvars, csv_rows, err, row_i, addr, d1t1, d2t2,
                 d3t3, pre, post, callvars, obsvars, first_run>>

NextOffline == LoadGazetteer \/ OfflineEnrich

SpecOffline == InitOffline /\ [][NextOffline]_vars

\* the external table has area key k, with another district than the seed's
collides(k) ==
  /\ k \in DOMAIN EXPANDED_AREA
  /\ \E j \in 1..Len(csv_rows) : csv_rows[j][1] = k
  /\ offline_map[k] # EXPANDED_AREA[k]

\* C11: when the address names no district and names an area key on which the
\* external table and the seed disagree, the district offline_enrich returns
\* is the external table's district for that key
GazetteerPrecedence ==
  pc = "enriched" =>
    \A k \in area_matches(normalize(addr)) :
      (collides(k) /\ district_matches(normalize(addr)) = {}) =>
        out[1] = title(offline_map[k])

----------------------------------------------------------------------------
(* Specification SpecModes: run() on a one-row sheet in mode "offline",    *)
(* then again in mode "auto" on the same sheet, from the same cache, with  *)
(* the same answers of the service, the retry pass enabled.  For the cells  *)
(* of RawCells offline_enrich has one result, whatever the iteration order *)
(* of AREA_KEYS and DISTRICT_KEYS, so both runs start from the same one.   *)

\* what the service answers to one attempt: a failure, a result with a
\* district and a thana, a result with a district only
ModeResponses ==
  { [kind |-> "status", comp |-> <<>>],
    [kind |-> "result",
     comp |-> << <<"state_district", S("dhaka district")>>, <<"suburb", S("gulshan")>>,
                 <<"city", S("dhaka")>> >>],
    [kind |-> "result", comp |-> << <<"state", S("sylhet division")>> >>] }

InitModes ==
  /\ mode = "offline"
  /\ retry_online_notfound = TRUE
  /\ \E g \in GazetteerConfigs : gazetteer_csv = g[1] /\ gazetteer_file = g[2]
  /\ cache_path = S("cache_geocode.csv")
  /\ store \in {AbsentFile, CacheFileRows}
  /\ columns = {}
  /\ svc \in [1..Len(attempts(<<>>)) -> ModeResponses]
  /\ first_run = NoRun
  /\ cache = <<>>
  /\ loaded = NoLoad
  /\ cpc = "idle"
  /\ csv_rows = <<>>
  /\ pc = "load"
  /\ err = "none"
  /\ row_i = 0
  /\ addr = <<>>
  /\ out = NonePair
  /\ d1t1 = NonePair
  /\ d2t2 = NonePair
  /\ d3t3 = NonePair
  /\ pre = NonePair
  /\ post = NonePair
  /\ ret = "none"
  /\ on = NonePair
  /\ att = 0
  /\ resp = NoResp
  /\ look = NonePair
  /\ row_calls = 0
  /\ row_cache = <<>>
  /\ call_cache = <<>>
  /\ call_net = 0
  /\ call_fail = 0
  /\ call_sleeps = 0
  /\ lookups = [a \in AddrStrings |-> 0]
  /\ lastev = "none"
  /\ row_reqs = <<>>
  /\ NormIdle

\* the row is done in mode "offline": run() starts again in mode "auto", on
\* the same row, with the cache as load_cache gave it
SecondRun ==
  /\ pc = "row"
  /\ row_i = 1
  /\ mode = "offline"
  /\ first_run' = [ran |-> TRUE, out |-> out, cache |-> cache, reqs |-> row_reqs]
  /\ mode' = "auto"
  /\ cache' = row_cache
  /\ out' = <<NotFound, NotFound>>
  /\ d1t1' = NonePair
  /\ d2t2' = NonePair
  /\ d3t3' = NonePair
  /\ pre' = NonePair
  /\ post' = NonePair
  /\ row_calls' = 0
  /\ row_reqs' = <<>>
  /\ lookups' = [a \in AddrStrings |-> 0]
  /\ lastev' = "none"
  /\ ret' = "none"
  /\ ResetCall
  /\ pc' = "mode"
  /\ UNCHANGED <<normvars, retry_online_notfound, gazetteer_csv, gazetteer_file,
                 columns, svc, cache_path, store, loaded, cpc, csv_rows, err,
                 row_i, addr, att, resp, look, row_cache>>

NextModes ==
  \/ Load
  \/ (row_i = 0 /\ StartRow)
  \/ ModeOffline
  \/ ModeAuto
  \/ OnlineHit
  \/ OnlineMiss
  \/ SkipAttempt
  \/ Request
  \/ HandleResponse
  \/ LookupExhausted
  \/ OnlineStore
  \/ ReturnAuto
  \/ RetryPass
  \/ NoRetry
  \/ ReturnRetry
  \/ FillRow
  \/ SecondRun

SpecModes == InitModes /\ [][NextModes]_vars

\* the run in mode "auto" is done with its row, after the run in mode "offline"
BothRan == first_run.ran /\ pc = "row"

\* the retry pass of mode "auto": its online_enrich call finds the address in
\* the cache, issues no request and leaves the cache and the result alone
AutoRetryIsCacheHit ==
  (mode = "auto" /\ ret = "retry" /\ pc \in CallPcs) =>
    /\ cache_hit(addr, call_cache)
    /\ call_net = 0
    /\ cache = call_cache
    /\ \A c \in 1..2 : out[c] = merge_auto(d1t1[c], d2t2[c])

====
